---- MODULE Spec2Model ----
(***************************************************************************)
(* Model of luno-mcp: the currency-pair normaliser, the identifying HTTP   *)
(* transport decorator (MCPRoundTripper), the configuration loader         *)
(* (config.Load) and the MCP tool handlers of internal/tools.              *)
(*                                                                         *)
(* Strings that the code inspects character by character (trading pairs)   *)
(* are sequences of one-character strings; strings that the code only      *)
(* compares or concatenates (User-Agent values, domains, credentials       *)
(* after classification) are TLA+ strings.                                 *)
(***************************************************************************)
EXTENDS Integers, Sequences, FiniteSets, TLC

VARIABLES
    \* ---- normaliser harness (pure function applied to drawn inputs)
    npair,      \* the input string
    nout,       \* normalizeCurrencyPair(npair)
    nout2,      \* normalizeCurrencyPair(nout)
    nrep,       \* another evaluation of normalizeCurrencyPair(npair)
    npc,        \* "start" | "once" | "twice"
    \* ---- MCPRoundTripper: heap of requests and headers, calls in flight
    requests,   \* request id -> [Method, URL, Header (a header id)]
    headers,    \* header id -> [header name -> sequence of values]
    rt,         \* the decorator: [transport, mcpServer, version]
    rtargs,     \* the arguments NewMCPRoundTripper was called with
    rtcall,     \* call id -> in-flight RoundTrip call
    \* ---- config.Load
    env,        \* the process environment read by Load
    client,     \* the exchange client built by Load
    loadres,    \* what Load returned
    \* ---- tool handlers
    cfg,        \* the Config injected in the handlers
    treq,       \* the tool request of the invocation
    upstream,   \* the exchange-client calls made by the invocation
    tres,       \* what the handler returned
    twin        \* the same invocation replayed with IsAuthenticated flipped

vars == <<npair, nout, nout2, nrep, npc, requests, headers, rt, rtargs, rtcall,
          env, client, loadres, cfg, treq, upstream, tres, twin>>

normVars == <<npair, nout, nout2, nrep, npc>>
rtVars   == <<requests, headers, rt, rtargs, rtcall>>
loadVars == <<env, client, loadres>>
toolVars == <<cfg, treq, upstream, tres, twin>>

-----------------------------------------------------------------------------
(* Bounds *)

MaxTokens == 3          \* tokens per input string of the normaliser harness
MaxPairTokens == 2      \* tokens per pair argument of a tool request

-----------------------------------------------------------------------------
(* Character strings *)

Lower == <<"a","b","c","d","e","f","g","h","i","j","k","l","m",
           "n","o","p","q","r","s","t","u","v","w","x","y","z">>
Upper == <<"A","B","C","D","E","F","G","H","I","J","K","L","M",
           "N","O","P","Q","R","S","T","U","V","W","X","Y","Z">>

Separators == {"-", "_", "/"}

ToUpperChar(c) ==
    IF \E i \in 1..Len(Lower) : Lower[i] = c
    THEN Upper[CHOOSE i \in 1..Len(Lower) : Lower[i] = c]
    ELSE c

\* strings.ToUpper
ToUpper(s) == [i \in 1..Len(s) |-> ToUpperChar(s[i])]

\* strings.Replace(s, old, new, -1) for a non-empty old: the non-overlapping
\* occurrences of old, found left to right, are replaced by new.
RECURSIVE ReplaceFirstOnly(_, _, _)
ReplaceFirstOnly(s, old, new) ==
    IF Len(s) < Len(old) THEN s
    ELSE IF SubSeq(s, 1, Len(old)) = old
         THEN new \o SubSeq(s, Len(old) + 1, Len(s))
         ELSE <<s[1]>> \o ReplaceFirstOnly(Tail(s), old, new)

RECURSIVE Replace(_, _, _)
Replace(s, old, new) ==
    IF Len(s) < Len(old) THEN s
    ELSE IF SubSeq(s, 1, Len(old)) = old
         THEN new \o Replace(SubSeq(s, Len(old) + 1, Len(s)), old, new)
         ELSE <<s[1]>> \o Replace(Tail(s), old, new)

BTC     == <<"B","T","C">>
BITCOIN == <<"B","I","T","C","O","I","N">>
XBT     == <<"X","B","T">>

\* the alias table of normalizeCurrencyPair
currencyMappings == (BTC :> XBT) @@ (BITCOIN :> XBT)

\* Go leaves the iteration order of a map unspecified: every order of the
\* keys is an outcome of `for common, luno := range currencyMappings`.
MapOrders ==
    { o \in [1..Cardinality(DOMAIN currencyMappings) -> DOMAIN currencyMappings] :
        \A i, j \in DOMAIN o : i # j => o[i] # o[j] }

RECURSIVE ApplyMappings(_, _)
ApplyMappings(pair, order) ==
    IF order = <<>> THEN pair
    ELSE ApplyMappings(Replace(pair, Head(order), currencyMappings[Head(order)]),
                       Tail(order))

normalizeCurrencyPairSlashKept(pair, order) ==
    LET p1 == Replace(pair, <<"-">>, <<>>)
        p2 == Replace(p1, <<"_">>, <<>>)
        p4 == ToUpper(p2)
    IN  ApplyMappings(p4, order)
normalizeCurrencyPair(pair, order) ==
    LET p1 == Replace(pair, <<"-">>, <<>>)
        p2 == Replace(p1, <<"_">>, <<>>)
        p3 == Replace(p2, <<"/">>, <<>>)
        p4 == ToUpper(p3)
    IN  ApplyMappings(p4, order)

-----------------------------------------------------------------------------
(* Inputs of the normaliser harness *)

Tokens ==
    { <<"b","t","c">>, <<"B","T","C">>, <<"b","i","t","c","o","i","n">>,
      <<"B","i","t","C","o","i","n">>,
      <<"b">>, <<"t">>, <<"c">>, <<"x">>, <<"X">>,
      <<"-">>, <<"_">>, <<"/">>,
      <<"z","a","r">>, <<"Z","A","R">>, <<"e","t","h">>, <<"u","s","d">> }

RECURSIVE TokStrings(_, _)
TokStrings(toks, n) ==
    IF n = 0 THEN { <<>> }
    ELSE LET prev == TokStrings(toks, n - 1)
         IN  prev \cup { s \o t : s \in prev, t \in toks }

NormInputs == TokStrings(Tokens, MaxTokens)

NotEvaluated == [done |-> FALSE, out |-> <<>>]

NormInit ==
    /\ npair \in NormInputs
    /\ nout = <<>>
    /\ nout2 = <<>>
    /\ nrep = NotEvaluated
    /\ npc = "start"

NormIdle ==
    /\ npair = <<>>
    /\ nout = <<>>
    /\ nout2 = <<>>
    /\ nrep = NotEvaluated
    /\ npc = "off"

\* one evaluation of normalizeCurrencyPair on the drawn input
Normalize ==
    /\ npc = "start"
    /\ \E order \in MapOrders : nout' = normalizeCurrencyPair(npair, order)
    /\ npc' = "once"
    /\ UNCHANGED <<npair, nout2, nrep>>
    /\ UNCHANGED <<rtVars, loadVars, toolVars>>

\* a second evaluation, on the output of the first
NormalizeAgain ==
    /\ npc = "once"
    /\ \E order \in MapOrders : nout2' = normalizeCurrencyPair(nout, order)
    /\ npc' = "twice"
    /\ UNCHANGED <<npair, nout, nrep>>
    /\ UNCHANGED <<rtVars, loadVars, toolVars>>

\* another evaluation on the same input, with the iteration order the
\* runtime picks for it
NormalizeSameInput ==
    /\ npc # "start"
    /\ ~nrep.done
    /\ \E order \in MapOrders :
          nrep' = [done |-> TRUE, out |-> normalizeCurrencyPair(npair, order)]
    /\ UNCHANGED <<npair, nout, nout2, npc>>
    /\ UNCHANGED <<rtVars, loadVars, toolVars>>

-----------------------------------------------------------------------------
(* MCPRoundTripper *)

MaxCalls == 2           \* RoundTrip calls that may be in flight together

Calls == 1..MaxCalls

\* every call owns two request objects and two header maps on the heap:
\* the caller's and the one Request.Clone allocates
OrigId(c)  == 2 * c - 1
CloneId(c) == 2 * c
HeapIds    == 1..(2 * MaxCalls)

DefaultTransport == "http.DefaultTransport"
Transports == {"nil", DefaultTransport, "customTransport"}
ClientNames == {"luno-mcp", "test-app"}
Versions == {"1.0.0"}

EmptyHeader == [k \in {"User-Agent", "Accept"} |-> <<>>]
NoRequest == [Method |-> "", URL |-> "", Header |-> 0]
NoSnapshot == [Method |-> "", URL |-> "", Header |-> EmptyHeader]
NoResult == [resp |-> "none", err |-> "none"]

\* http.Header.Get: the first value stored under the key, "" when there is none
HeaderGet(h, key) == IF h[key] = <<>> THEN "" ELSE h[key][1]

\* http.Header.Set: the key's values are replaced by the single value
HeaderSet(h, key, value) == [h EXCEPT ![key] = <<value>>]

NewMCPRoundTripperNilKept(transport, mcpServer, version) ==
    [transport |-> transport, mcpServer |-> mcpServer, version |-> version]
NewMCPRoundTripper(transport, mcpServer, version) ==
    [transport |-> IF transport = "nil" THEN DefaultTransport ELSE transport,
     mcpServer |-> mcpServer,
     version   |-> version]

\* the header map a clone of a request points to: Request.Clone makes a deep
\* copy, so the clone owns the freshly allocated map
ClonedHeaderShared(origHeader, freshHeader) == origHeader
ClonedHeader(origHeader, freshHeader) == freshHeader

NewUANoSpace(currentUA, mcpServer, version) ==
    currentUA \o "(" \o mcpServer \o "/" \o version \o ")"
NewUA(currentUA, mcpServer, version) ==
    IF currentUA = ""
    THEN "(" \o mcpServer \o "/" \o version \o ")"
    ELSE currentUA \o " (" \o mcpServer \o "/" \o version \o ")"

\* what an observer of the request object sees
Deref(id) ==
    [Method |-> requests[id].Method,
     URL    |-> requests[id].URL,
     Header |-> headers[requests[id].Header]]

UserAgentValues == { <<>>, <<"">>, <<"TestClient/1.0">> }
AcceptValues == { <<>>, <<"application/json">> }
RequestLines == { <<"GET", "https://api.luno.com/api/1/ticker">>,
                  <<"POST", "https://api.luno.com/api/1/postorder">> }

InnerOutcomes ==
    { [resp |-> "200 OK", err |-> "nil"],
      [resp |-> "nil", err |-> "dial tcp: i/o timeout"] }

\* a RoundTrip call: where it is, the caller's request as it was handed in,
\* how often and with which request the inner transport was called, what
\* the inner transport answered and what RoundTrip returned
IdleCall ==
    [pc |-> "idle", pre |-> NoSnapshot, innerCalls |-> 0, innerReq |-> 0,
     inner |-> NoResult, ret |-> NoResult]

RTInit ==
    /\ requests = [i \in HeapIds |-> NoRequest]
    /\ headers = [i \in HeapIds |-> EmptyHeader]
    /\ \E t \in Transports, n \in ClientNames, v \in Versions :
          /\ rtargs = [transport |-> t, mcpServer |-> n, version |-> v]
          /\ rt = NewMCPRoundTripper(t, n, v)
    /\ rtcall = [c \in Calls |-> IdleCall]

RTIdle ==
    /\ requests = [i \in HeapIds |-> NoRequest]
    /\ headers = [i \in HeapIds |-> EmptyHeader]
    /\ rtargs = [transport |-> "nil", mcpServer |-> "luno-mcp", version |-> "1.0.0"]
    /\ rt = NewMCPRoundTripper("nil", "luno-mcp", "1.0.0")
    /\ rtcall = [c \in Calls |-> IdleCall]

\* the caller builds a request (http.NewRequest, Header.Set) and keeps it
NewRequest(c) ==
    /\ rtcall[c].pc = "idle"
    /\ \E line \in RequestLines, ua \in UserAgentValues, acc \in AcceptValues :
         LET h == [EmptyHeader EXCEPT !["User-Agent"] = ua, !["Accept"] = acc]
         IN  /\ requests' = [requests EXCEPT ![OrigId(c)] =
                    [Method |-> line[1], URL |-> line[2], Header |-> OrigId(c)]]
             /\ headers' = [headers EXCEPT ![OrigId(c)] = h]
             /\ rtcall' = [rtcall EXCEPT ![c].pc = "ready",
                    ![c].pre = [Method |-> line[1], URL |-> line[2], Header |-> h]]
    /\ UNCHANGED <<rt, rtargs>>
    /\ UNCHANGED <<normVars, loadVars, toolVars>>

\* MCPRoundTripper.RoundTrip up to the point where the inner transport has
\* been handed the clone
RoundTripSerialized(c) ==
    /\ rtcall[c].pc = "ready"
    /\ \A d \in Calls : rtcall[d].pc # "sent"
    /\ LET req       == requests[OrigId(c)]
           copied    == [headers EXCEPT ![CloneId(c)] = headers[req.Header]]
           cloneHdr  == ClonedHeader(req.Header, CloneId(c))
           currentUA == HeaderGet(copied[cloneHdr], "User-Agent")
           newUA     == NewUA(currentUA, rt.mcpServer, rt.version)
       IN  /\ requests' = [requests EXCEPT ![CloneId(c)] =
                  [Method |-> req.Method, URL |-> req.URL, Header |-> cloneHdr]]
           /\ headers' = [copied EXCEPT ![cloneHdr] =
                  HeaderSet(copied[cloneHdr], "User-Agent", newUA)]
    /\ rtcall' = [rtcall EXCEPT ![c].pc = "sent",
                                ![c].innerCalls = @ + 1,
                                ![c].innerReq = CloneId(c)]
    /\ UNCHANGED <<rt, rtargs>>
    /\ UNCHANGED <<normVars, loadVars, toolVars>>
RoundTrip(c) ==
    /\ rtcall[c].pc = "ready"
    /\ LET req       == requests[OrigId(c)]
           copied    == [headers EXCEPT ![CloneId(c)] = headers[req.Header]]
           cloneHdr  == ClonedHeader(req.Header, CloneId(c))
           currentUA == HeaderGet(copied[cloneHdr], "User-Agent")
           newUA     == NewUA(currentUA, rt.mcpServer, rt.version)
       IN  /\ requests' = [requests EXCEPT ![CloneId(c)] =
                  [Method |-> req.Method, URL |-> req.URL, Header |-> cloneHdr]]
           /\ headers' = [copied EXCEPT ![cloneHdr] =
                  HeaderSet(copied[cloneHdr], "User-Agent", newUA)]
    /\ rtcall' = [rtcall EXCEPT ![c].pc = "sent",
                                ![c].innerCalls = @ + 1,
                                ![c].innerReq = CloneId(c)]
    /\ UNCHANGED <<rt, rtargs>>
    /\ UNCHANGED <<normVars, loadVars, toolVars>>

\* return rt.transport.RoundTrip(reqClone): what RoundTrip returns for the
\* answer r of the inner transport
ReturnedWrapped(r) ==
    IF r.err = "nil" THEN r
    ELSE [resp |-> "nil", err |-> "mcp round trip: " \o r.err]
Returned(r) == r

\* the inner transport answers the clone and RoundTrip returns its answer
TransportReturns(c) ==
    /\ rtcall[c].pc = "sent"
    /\ \E r \in InnerOutcomes :
         rtcall' = [rtcall EXCEPT ![c].pc = "returned", ![c].inner = r,
                               ![c].ret = Returned(r)]
    /\ UNCHANGED <<requests, headers, rt, rtargs>>
    /\ UNCHANGED <<normVars, loadVars, toolVars>>

-----------------------------------------------------------------------------
(* config.Load *)

EnvLunoAPIKeyID ==
    <<"L","U","N","O","_","A","P","I","_","K","E","Y","_","I","D">>
EnvLunoAPIKeySecret ==
    <<"L","U","N","O","_","A","P","I","_","S","E","C","R","E","T">>
EnvLunoAPIDomain ==
    <<"L","U","N","O","_","A","P","I","_","D","O","M","A","I","N">>
EnvLunoAPIDebug ==
    <<"L","U","N","O","_","A","P","I","_","D","E","B","U","G">>

DefaultLunoDomain == "api.luno.com"

WhiteSpace == {" ", "\t", "\n", "\r"}

\* strings.TrimSpace
RECURSIVE TrimLeft(_)
TrimLeft(s) ==
    IF s # <<>> /\ s[1] \in WhiteSpace THEN TrimLeft(Tail(s)) ELSE s
RECURSIVE TrimRight(_)
TrimRight(s) ==
    IF s # <<>> /\ s[Len(s)] \in WhiteSpace
    THEN TrimRight(SubSeq(s, 1, Len(s) - 1)) ELSE s
TrimSpace(s) == TrimRight(TrimLeft(s))

ToLowerChar(c) ==
    IF \E i \in 1..Len(Upper) : Upper[i] = c
    THEN Lower[CHOOSE i \in 1..Len(Upper) : Upper[i] = c]
    ELSE c

\* strings.ToLower
ToLower(s) == [i \in 1..Len(s) |-> ToLowerChar(s[i])]

\* strings.Repeat("*", n)
Stars(n) == [i \in 1..n |-> "*"]

maskValue(s) ==
    IF Len(s) <= 4 THEN Stars(Len(s))
    ELSE SubSeq(s, 1, 4) \o Stars(Len(s) - 4)

\* os.Getenv: the value of the variable, empty when it is not set
Getenv(name) == env[name]

\* the credential values Load reads: the variable NAME is trimmed, the value
\* is taken as it is
CredentialValue(name) == Getenv(TrimSpace(name))

\* domain resolution of Load: default, then environment, then override
ResolveDomainEnvFirst(domainOverride, envDomain) ==
    IF envDomain # "" THEN envDomain
    ELSE IF domainOverride # "" THEN domainOverride
    ELSE DefaultLunoDomain
ResolveDomain(domainOverride, envDomain) ==
    LET d0 == DefaultLunoDomain
        d1 == IF envDomain # "" THEN envDomain ELSE d0
    IN  IF domainOverride # "" THEN domainOverride ELSE d1

\* the error check after SetAuth: Load fails when the client rejected the
\* credentials
SetAuthFailedSwallowed(haveCreds, setAuthOK) == FALSE
SetAuthFailed(haveCreds, setAuthOK) == haveCreds /\ ~setAuthOK

\* the debug flag Load derives from the environment value
DebugModeCaseSensitive(debugEnv) ==
    debugEnv \in { <<"t","r","u","e">>, <<"1">>, <<"y","e","s">> }
DebugMode(debugEnv) ==
    IF debugEnv # <<>>
    THEN \/ ToLower(debugEnv) = <<"t","r","u","e">>
         \/ debugEnv = <<"1">>
         \/ ToLower(debugEnv) = <<"y","e","s">>
    ELSE FALSE

\* luno.NewClient()
NewClient ==
    [baseURL |-> "https://api.luno.com", transport |-> DefaultTransport,
     authSet |-> FALSE,
     apiKeyID |-> <<>>, apiKeySecret |-> <<>>, debug |-> FALSE,
     setters |-> <<>>]

NilConfig == [LunoClient |-> "nil", IsAuthenticated |-> FALSE]
NoLoad == [returned |-> FALSE, cfg |-> NilConfig, err |-> "nil",
           domainOverride |-> "", stdout |-> <<>>]

ErrSetAuth == "failed to set Luno API credentials"

KeyIDValues ==
    { <<>>, <<" ">>, <<"k","e","y","i","d","1">>, <<" ","k","1"," ">> }
SecretValues ==
    { <<>>, <<" ", "\t">>, <<"s","e","c","r","e","t">>,
      <<"k","e","y","i","s","e","c">> }
DomainValues == { "", "api.luno.com", "api.staging.luno.com" }
OverrideValues == { "", "api.luno.com", "custom.example.com" }
DebugValues ==
    { <<>>, <<"t","r","u","e">>, <<"T","r","u","e">>, <<"1">>,
      <<"Y","E","S">>, <<"n","o">>, <<"0">>, <<"t","r","u","e"," ">> }

LoadInit ==
    /\ env \in { (EnvLunoAPIKeyID :> k) @@ (EnvLunoAPIKeySecret :> s)
                 @@ (EnvLunoAPIDomain :> d) @@ (EnvLunoAPIDebug :> g) :
                   k \in KeyIDValues, s \in SecretValues,
                   d \in DomainValues, g \in DebugValues }
    /\ client = NewClient
    /\ loadres = NoLoad

LoadIdle ==
    /\ env = (EnvLunoAPIKeyID :> <<>>) @@ (EnvLunoAPIKeySecret :> <<>>)
             @@ (EnvLunoAPIDomain :> "") @@ (EnvLunoAPIDebug :> <<>>)
    /\ client = NewClient
    /\ loadres = NoLoad

\* config.Load(domainOverride); setAuthOK is the answer of the exchange
\* client's SetAuth when Load calls it
Load ==
    /\ ~loadres.returned
    /\ \E domainOverride \in OverrideValues, setAuthOK \in BOOLEAN :
         LET apiKeyID     == CredentialValue(EnvLunoAPIKeyID)
             apiKeySecret == CredentialValue(EnvLunoAPIKeySecret)
             out1 == << <<"LUNO_API_KEY_ID value", maskValue(apiKeyID), Len(apiKeyID)>>,
                        <<"LUNO_API_SECRET value", maskValue(apiKeySecret), Len(apiKeySecret)>> >>
             c0 == NewClient
             envDomain == Getenv(TrimSpace(EnvLunoAPIDomain))
             domain == ResolveDomain(domainOverride, envDomain)
             c1 == IF domain # DefaultLunoDomain
                   THEN [c0 EXCEPT !.baseURL = "https://" \o domain,
                                   !.setters = Append(@, <<"SetBaseURL", "https://" \o domain>>)]
                   ELSE c0
             haveCreds == apiKeyID # <<>> /\ apiKeySecret # <<>>
             c2 == IF haveCreds
                   THEN IF setAuthOK
                        THEN [c1 EXCEPT !.authSet = TRUE, !.apiKeyID = apiKeyID,
                                        !.apiKeySecret = apiKeySecret,
                                        !.setters = Append(@, <<"SetAuth", "nil">>)]
                        ELSE [c1 EXCEPT !.setters = Append(@, <<"SetAuth", "error">>)]
                   ELSE c1
             debugMode == DebugMode(Getenv(TrimSpace(EnvLunoAPIDebug)))
             c3 == [c2 EXCEPT !.debug = debugMode,
                              !.setters = Append(@, <<"SetDebug",
                                  IF debugMode THEN "true" ELSE "false">>)]
         IN  IF SetAuthFailed(haveCreds, setAuthOK)
             THEN /\ client' = c2
                  /\ loadres' = [returned |-> TRUE, cfg |-> NilConfig,
                                 err |-> ErrSetAuth,
                                 domainOverride |-> domainOverride, stdout |-> out1]
             ELSE /\ client' = c3
                  /\ loadres' = [returned |-> TRUE,
                                 cfg |-> [LunoClient |-> "client",
                                          IsAuthenticated |-> haveCreds],
                                 err |-> "nil",
                                 domainOverride |-> domainOverride, stdout |-> out1]
    /\ UNCHANGED env
    /\ UNCHANGED <<normVars, rtVars, toolVars>>

-----------------------------------------------------------------------------
(* Tool requests: the argument bag of mcp.CallToolRequest *)

\* an argument is absent, a JSON string or a JSON number (kept in tenths,
\* so that 25 is 2.5)
Absent == [kind |-> "absent", s |-> <<>>, n |-> 0]
Str(s) == [kind |-> "str", s |-> s, n |-> 0]
Num(t) == [kind |-> "num", s |-> <<>>, n |-> t]

DigitChars == <<"0","1","2","3","4","5","6","7","8","9">>
IsDigit(c) == \E i \in 1..10 : DigitChars[i] = c
DigitVal(c) == (CHOOSE i \in 1..10 : DigitChars[i] = c) - 1

RECURSIVE DigitsValue(_)
DigitsValue(s) ==
    IF s = <<>> THEN 0
    ELSE DigitsValue(SubSeq(s, 1, Len(s) - 1)) * 10 + DigitVal(s[Len(s)])

IsDigits(s) == s # <<>> /\ \A i \in 1..Len(s) : IsDigit(s[i])

\* strconv.ParseInt(s, 10, 64) and strconv.Atoi on the inputs of the model
\* (all far inside the int64 range): an optional sign and decimal digits
ParseInt(s) ==
    LET signed == s # <<>> /\ s[1] \in {"+", "-"}
        body   == IF signed THEN Tail(s) ELSE s
    IN  IF IsDigits(body)
        THEN [ok |-> TRUE,
              v |-> IF signed /\ s[1] = "-" THEN 0 - DigitsValue(body)
                    ELSE DigitsValue(body)]
        ELSE [ok |-> FALSE, v |-> 0]

\* int64(f) of a float64 kept in tenths: truncation towards zero
Int64(t) == IF t >= 0 THEN t \div 10 ELSE 0 - ((0 - t) \div 10)

\* decimal.NewFromString: the digits around the first '.', the number of
\* digits after it as the scale
IndexDot(s) ==
    IF \E i \in 1..Len(s) : s[i] = "."
    THEN CHOOSE i \in 1..Len(s) : s[i] = "." /\ \A j \in 1..(i - 1) : s[j] # "."
    ELSE 0
NewFromString(s) ==
    LET i      == IndexDot(s)
        digits == IF i > 0 THEN SubSeq(s, 1, i - 1) \o SubSeq(s, i + 1, Len(s)) ELSE s
        scale  == IF i > 0 THEN Len(s) - i ELSE 0
        p      == ParseInt(digits)
    IN  [ok |-> p.ok, unscaled |-> p.v, scale |-> IF p.ok THEN scale ELSE 0]

\* CallToolRequest.RequireString
RequireStringLenient(args, key) == [ok |-> TRUE, v |-> args[key].s]
RequireString(args, key) ==
    IF args[key].kind = "str" THEN [ok |-> TRUE, v |-> args[key].s]
    ELSE [ok |-> FALSE, v |-> <<>>]

\* CallToolRequest.GetString
GetString(args, key, default) ==
    IF args[key].kind = "str" THEN args[key].s ELSE default

\* CallToolRequest.GetFloat, in tenths; a string argument is converted when
\* it parses as a number
GetFloat(args, key, default) ==
    IF args[key].kind = "num" THEN args[key].n
    ELSE IF args[key].kind = "str" /\ ParseInt(args[key].s).ok
         THEN 10 * ParseInt(args[key].s).v
         ELSE default

\* CallToolRequest.RequireFloat, in tenths
RequireFloat(args, key) ==
    IF args[key].kind = "num" THEN [ok |-> TRUE, v |-> args[key].n]
    ELSE IF args[key].kind = "str" /\ ParseInt(args[key].s).ok
         THEN [ok |-> TRUE, v |-> 10 * ParseInt(args[key].s).v]
         ELSE [ok |-> FALSE, v |-> 0]

\* CallToolRequest.GetInt
GetIntZeroWhenAbsent(args, key, default) ==
    IF args[key].kind = "num" THEN Int64(args[key].n)
    ELSE IF args[key].kind = "str" /\ ParseInt(args[key].s).ok
         THEN ParseInt(args[key].s).v
         ELSE 0
GetInt(args, key, default) ==
    IF args[key].kind = "num" THEN Int64(args[key].n)
    ELSE IF args[key].kind = "str" /\ ParseInt(args[key].s).ok
         THEN ParseInt(args[key].s).v
         ELSE default

\* strings.Split(s, ",")
RECURSIVE Split(_)
Split(s) ==
    IF \E i \in 1..Len(s) : s[i] = ","
    THEN LET i == CHOOSE k \in 1..Len(s) :
                      s[k] = "," /\ \A j \in 1..(k - 1) : s[j] # ","
         IN  <<SubSeq(s, 1, i - 1)>> \o Split(SubSeq(s, i + 1, Len(s)))
    ELSE <<s>>

-----------------------------------------------------------------------------
(* Results and exchange-client calls *)

ErrAPICredentialsRequired ==
    "API credentials are required for this operation. Please set LUNO_API_KEY_ID and LUNO_API_SECRET environment variables."

NoToolResult ==
    [returned |-> FALSE, isError |-> FALSE, text |-> "", param |-> "",
     row |-> 0 - 1, goErr |-> "nil"]

\* mcp.NewToolResultError / NewToolResultErrorFromErr, returned with a nil error
ToolErrorAsGoError(text, param) ==
    [returned |-> TRUE, isError |-> TRUE, text |-> text, param |-> param,
     row |-> 0 - 1, goErr |-> text]
ToolError(text, param) ==
    [returned |-> TRUE, isError |-> TRUE, text |-> text, param |-> param,
     row |-> 0 - 1, goErr |-> "nil"]

\* mcp.NewToolResultText, returned with a nil error
ToolText(text, row) ==
    [returned |-> TRUE, isError |-> FALSE, text |-> text, param |-> "",
     row |-> row, goErr |-> "nil"]

SinceZero == [kind |-> "zero", ms |-> 0]
Since24hAgo == [kind |-> "now-24h", ms |-> 0]
SinceMs(ms) == [kind |-> "ms", ms |-> ms]

NoDecimal == [unscaled |-> 0, scale |-> 0]

\* a request handed to the exchange client, with the client's answer: ok
\* is whether it returned a nil error, rows the transaction rows it listed
Call(op) ==
    [op |-> op, Pair |-> <<>>, Pairs |-> <<>>, Since |-> SinceZero,
     Duration |-> 0, Type |-> "", Volume |-> NoDecimal, Price |-> NoDecimal,
     OrderId |-> <<>>, Limit |-> 0, Id |-> 0, MinRow |-> 0, MaxRow |-> 0,
     ok |-> TRUE, rows |-> <<>>]

NoRequestYet == [tool |-> "", args |-> <<>>]
NoTwin == [calls |-> <<>>, res |-> NoToolResult]

\* the Config with the other value of IsAuthenticated
Flipped(c) == [c EXCEPT !.IsAuthenticated = ~c.IsAuthenticated]

\* one handler invocation: the request, the calls it made and its result;
\* other is the outcome of the same handler on the same request and the same
\* client answers against Flipped(cfg)
Invoke(tool, args, out, other) ==
    /\ treq' = [tool |-> tool, args |-> args]
    /\ upstream' = out.calls
    /\ tres' = out.res
    /\ twin' = other
    /\ UNCHANGED cfg
    /\ UNCHANGED <<normVars, rtVars, loadVars>>

Out(calls, res) == [calls |-> calls, res |-> res]

-----------------------------------------------------------------------------
(* Inputs of the tool handlers *)

ToolTokens ==
    { <<"b","t","c">>, <<"B","T","C">>, <<"b","i","t","c","o","i","n">>,
      <<"c">>, <<"-">>, <<"_">>, <<"/">>, <<"z","a","r">>, <<"e","t","h">> }

PairArgs == TokStrings(ToolTokens, MaxPairTokens)
PairParams == {Absent, Num(10)} \cup { Str(p) : p \in PairArgs }

CsvArgs == TokStrings(ToolTokens \cup { <<",">> }, MaxPairTokens + 1)
CsvParams == {Absent} \cup { Str(p) : p \in CsvArgs }

NumberParams == { Absent, Num(0), Num(25), Num(600), Str(<<"7">>), Str(<<"x">>) }
IdParams == { Absent, Num(10), Str(<<"1">>), Str(<<"2">>), Str(<<"1","2">>),
              Str(<<"x","1">>) }
TypeParams == { Absent, Str(<<"B","U","Y">>), Str(<<"S","E","L","L">>),
                Str(<<"b","u","y">>) }
DecimalParams == { Absent, Str(<<"0",".","5">>), Str(<<"1","0","0">>),
                   Str(<<"1",".","2",".","3">>) }
SinceParams == { Absent, Str(<<>>), Str(<<"1","7">>), Str(<<"n","o","w">>) }
OrderIdParams == { Absent, Num(10), Str(<<"B","X","M","C">>) }

\* the rows a ListTransactions answer may carry
MaxRows == 2
RowIndexes == {0, 1, 2}
RowLists == UNION { [1..n -> RowIndexes] : n \in 0..MaxRows }

ToolInit ==
    /\ cfg \in { [LunoClient |-> "client", IsAuthenticated |-> a] : a \in BOOLEAN }
    /\ treq = NoRequestYet
    /\ upstream = <<>>
    /\ tres = NoToolResult
    /\ twin = NoTwin

ToolIdle ==
    /\ cfg = NilConfig
    /\ treq = NoRequestYet
    /\ upstream = <<>>
    /\ tres = NoToolResult
    /\ twin = NoTwin

-----------------------------------------------------------------------------
(* Tool handlers.  callOK / marshalOK are the answers of the exchange       *)
(* client and of json.MarshalIndent; order is the iteration order of the   *)
(* alias table in the call of normalizeCurrencyPair.                       *)

HandleGetBalancesNoAuthCheck ==
    /\ ~tres.returned
    /\ \E callOK, marshalOK \in BOOLEAN :
         LET Run(c) ==
            LET call == [Call("GetBalances") EXCEPT !.ok = callOK]
            IN  IF ~callOK THEN Out(<<call>>, ToolError("Failed to get balances", ""))
                ELSE IF ~marshalOK
                THEN Out(<<call>>, ToolError("Failed to marshal balances", ""))
                ELSE Out(<<call>>, ToolText("json", 0 - 1))
         IN  Invoke("get_balances", <<>>, Run(cfg), Run(Flipped(cfg)))

HandleGetBalances ==
    /\ ~tres.returned
    /\ \E callOK, marshalOK \in BOOLEAN :
         LET Run(c) ==
            IF ~c.IsAuthenticated
            THEN Out(<<>>, ToolError(ErrAPICredentialsRequired, ""))
            ELSE
            LET call == [Call("GetBalances") EXCEPT !.ok = callOK]
            IN  IF ~callOK THEN Out(<<call>>, ToolError("Failed to get balances", ""))
                ELSE IF ~marshalOK
                THEN Out(<<call>>, ToolError("Failed to marshal balances", ""))
                ELSE Out(<<call>>, ToolText("json", 0 - 1))
         IN  Invoke("get_balances", <<>>, Run(cfg), Run(Flipped(cfg)))

HandleGetTicker ==
    /\ ~tres.returned
    /\ \E args \in [{"pair"} -> PairParams], order \in MapOrders,
          callOK, marshalOK \in BOOLEAN :
         LET Run(c) ==
            LET p == RequireString(args, "pair")
                call == [Call("GetTicker") EXCEPT
                            !.ok = callOK,
                            !.Pair = normalizeCurrencyPair(p.v, order)]
            IN  IF ~p.ok
                THEN Out(<<>>, ToolError("getting pair from request", "pair"))
                ELSE IF ~callOK THEN Out(<<call>>, ToolError("getting ticker", ""))
                ELSE IF ~marshalOK
                THEN Out(<<call>>, ToolError("Failed to marshal ticker", ""))
                ELSE Out(<<call>>, ToolText("json", 0 - 1))
         IN  Invoke("get_ticker", args, Run(cfg), Run(Flipped(cfg)))

HandleGetOrderBook ==
    /\ ~tres.returned
    /\ \E args \in [{"pair"} -> PairParams], order \in MapOrders,
          callOK, marshalOK \in BOOLEAN :
         LET Run(c) ==
            LET p == RequireString(args, "pair")
                call == [Call("GetOrderBook") EXCEPT
                            !.ok = callOK,
                            !.Pair = normalizeCurrencyPair(p.v, order)]
            IN  IF ~p.ok
                THEN Out(<<>>, ToolError("getting pair from request", "pair"))
                ELSE IF ~callOK THEN Out(<<call>>, ToolError("getting order book", ""))
                ELSE IF ~marshalOK
                THEN Out(<<call>>, ToolError("Failed to marshal order book", ""))
                ELSE Out(<<call>>, ToolText("json", 0 - 1))
         IN  Invoke("get_order_book", args, Run(cfg), Run(Flipped(cfg)))

\* the pair list of get_tickers and get_markets_info: nil for an empty
\* argument, else the comma-separated items, each normalised on its own
NormalizedPairs(pairsStr, orders) ==
    IF pairsStr # <<>>
    THEN LET pairs == Split(pairsStr)
         IN  [i \in 1..Len(pairs) |-> normalizeCurrencyPair(pairs[i], orders[i])]
    ELSE <<>>

HandleGetTickers ==
    /\ ~tres.returned
    /\ \E args \in [{"pair"} -> CsvParams], callOK, marshalOK \in BOOLEAN :
       \E orders \in [1..Len(Split(GetString(args, "pair", <<>>))) -> MapOrders] :
         LET Run(c) ==
            LET pairsStr == GetString(args, "pair", <<>>)
                call == [Call("GetTickers") EXCEPT
                            !.ok = callOK,
                            !.Pairs = NormalizedPairs(pairsStr, orders)]
            IN  IF ~callOK THEN Out(<<call>>, ToolError("getting tickers", ""))
                ELSE IF ~marshalOK
                THEN Out(<<call>>, ToolError("Failed to marshal tickers", ""))
                ELSE Out(<<call>>, ToolText("json", 0 - 1))
         IN  Invoke("get_tickers", args, Run(cfg), Run(Flipped(cfg)))

HandleGetCandles ==
    /\ ~tres.returned
    /\ \E args \in [{"pair"} -> PairParams] ,
          since \in NumberParams, duration \in NumberParams,
          order \in MapOrders, callOK, marshalOK \in BOOLEAN :
         LET Run(c) ==
            LET all == args @@ ("since" :> since) @@ ("duration" :> duration)
                p == RequireString(all, "pair")
                sinceFloat == GetFloat(all, "since", 0)
                d == RequireFloat(all, "duration")
                call == [Call("GetCandles") EXCEPT
                            !.ok = callOK,
                            !.Pair = normalizeCurrencyPair(p.v, order),
                            !.Since = IF sinceFloat = 0 THEN Since24hAgo
                                      ELSE SinceMs(Int64(sinceFloat)),
                            !.Duration = Int64(d.v)]
            IN  IF ~p.ok
                THEN Out(<<>>, ToolError("getting pair from request", "pair"))
                ELSE IF ~d.ok
                THEN Out(<<>>, ToolError("getting duration from request", "duration"))
                ELSE IF ~callOK THEN Out(<<call>>, ToolError("getting candles", ""))
                ELSE IF ~marshalOK
                THEN Out(<<call>>, ToolError("Failed to marshal candles", ""))
                ELSE Out(<<call>>, ToolText("json", 0 - 1))
         IN  Invoke("get_candles", args @@ ("since" :> since) @@ ("duration" :> duration), Run(cfg), Run(Flipped(cfg)))

HandleGetMarketsInfo ==
    /\ ~tres.returned
    /\ \E args \in [{"pair"} -> CsvParams], callOK, marshalOK \in BOOLEAN :
       \E orders \in [1..Len(Split(GetString(args, "pair", <<>>))) -> MapOrders] :
         LET Run(c) ==
            LET pairsStr == GetString(args, "pair", <<>>)
                call == [Call("Markets") EXCEPT
                            !.ok = callOK,
                            !.Pairs = NormalizedPairs(pairsStr, orders)]
            IN  IF ~callOK THEN Out(<<call>>, ToolError("getting markets info", ""))
                ELSE IF ~marshalOK
                THEN Out(<<call>>, ToolError("Failed to marshal markets info", ""))
                ELSE Out(<<call>>, ToolText("json", 0 - 1))
         IN  Invoke("get_markets_info", args, Run(cfg), Run(Flipped(cfg)))

\* GetMarketInfo(ctx, cfg, pair): the supplementary market information of
\* create_order, fetched from the exchange client for the one pair
GetMarketInfoCall(pair) == [Call("Markets") EXCEPT !.Pairs = <<pair>>]

\* the order types create_order accepts
ValidOrderTypeAnyCase(orderType) ==
    ToUpper(orderType) = <<"B","U","Y">> \/ ToUpper(orderType) = <<"S","E","L","L">>
ValidOrderType(orderType) ==
    orderType = <<"B","U","Y">> \/ orderType = <<"S","E","L","L">>

OrderTypeBid == "BID"
OrderTypeAsk == "ASK"

\* BUY/SELL of the caller mapped to the exchange's order type
LunoOrderTypeSwapped(orderType) ==
    IF orderType = <<"B","U","Y">> THEN OrderTypeAsk ELSE OrderTypeBid
LunoOrderType(orderType) ==
    IF orderType = <<"B","U","Y">> THEN OrderTypeBid ELSE OrderTypeAsk

\* the tail of create_order: the market-info fetch, then the order
SubmitOrderUnchecked(market, post, marshalOK) ==
    IF ~post.ok
    THEN Out(<<market, post>>, ToolError("Failed to create limit order", ""))
    ELSE IF ~marshalOK
    THEN Out(<<market, post>>, ToolError("Failed to marshal order result", ""))
    ELSE Out(<<market, post>>, ToolText("Order created successfully!", 0 - 1))
SubmitOrderRetried(market, post, marshalOK) ==
    IF ~market.ok
    THEN Out(<<market>>, ToolError(
            "Unable to create order: Failed to retrieve market information for pair", ""))
    ELSE IF ~post.ok
    THEN Out(<<market, post, post>>, ToolError("Failed to create limit order", ""))
    ELSE IF ~marshalOK
    THEN Out(<<market, post>>, ToolError("Failed to marshal order result", ""))
    ELSE Out(<<market, post>>, ToolText("Order created successfully!", 0 - 1))
SubmitOrder(market, post, marshalOK) ==
    IF ~market.ok
    THEN Out(<<market>>, ToolError(
            "Unable to create order: Failed to retrieve market information for pair", ""))
    ELSE IF ~post.ok
    THEN Out(<<market, post>>, ToolError("Failed to create limit order", ""))
    ELSE IF ~marshalOK
    THEN Out(<<market, post>>, ToolError("Failed to marshal order result", ""))
    ELSE Out(<<market, post>>, ToolText("Order created successfully!", 0 - 1))

HandleCreateOrder ==
    /\ ~tres.returned
    /\ \E pairArg \in PairParams, type \in TypeParams,
          volume \in DecimalParams, price \in DecimalParams,
          order \in MapOrders, marketOK, postOK, marshalOK \in BOOLEAN :
         LET args == ("pair" :> pairArg) @@ ("type" :> type)
                     @@ ("volume" :> volume) @@ ("price" :> price)
         IN
         LET Run(c) ==
            LET p == RequireString(args, "pair")
                pair == normalizeCurrencyPair(p.v, order)
                orderType == RequireString(args, "type")
                volumeStr == RequireString(args, "volume")
                priceStr == RequireString(args, "price")
                volumeDec == NewFromString(volumeStr.v)
                priceDec == NewFromString(priceStr.v)
                lunoOrderType == LunoOrderType(orderType.v)
                market == [GetMarketInfoCall(pair) EXCEPT !.ok = marketOK]
                post == [Call("PostLimitOrder") EXCEPT
                            !.ok = postOK,
                            !.Pair = pair, !.Type = lunoOrderType,
                            !.Volume = [unscaled |-> volumeDec.unscaled,
                                        scale |-> volumeDec.scale],
                            !.Price = [unscaled |-> priceDec.unscaled,
                                       scale |-> priceDec.scale]]
            IN  IF ~c.IsAuthenticated
                THEN Out(<<>>, ToolError(ErrAPICredentialsRequired, ""))
                ELSE IF ~p.ok
                THEN Out(<<>>, ToolError("getting pair from request", "pair"))
                ELSE IF ~orderType.ok
                THEN Out(<<>>, ToolError("getting type from request", "type"))
                ELSE IF ~ValidOrderType(orderType.v)
                THEN Out(<<>>, ToolError("Order type must be 'BUY' or 'SELL'", "type"))
                ELSE IF ~volumeStr.ok
                THEN Out(<<>>, ToolError("getting volume from request", "volume"))
                ELSE IF ~priceStr.ok
                THEN Out(<<>>, ToolError("getting price from request", "price"))
                ELSE IF ~volumeDec.ok
                THEN Out(<<>>, ToolError("Invalid volume format", "volume"))
                ELSE IF ~priceDec.ok
                THEN Out(<<>>, ToolError("Invalid price format", "price"))
                ELSE SubmitOrder(market, post, marshalOK)
         IN  Invoke("create_order", args, Run(cfg), Run(Flipped(cfg)))

HandleCancelOrder ==
    /\ ~tres.returned
    /\ \E args \in [{"order_id"} -> OrderIdParams], callOK, marshalOK \in BOOLEAN :
         LET Run(c) ==
            LET orderID == RequireString(args, "order_id")
                call == [Call("StopOrder") EXCEPT !.ok = callOK, !.OrderId = orderID.v]
            IN  IF ~c.IsAuthenticated
                THEN Out(<<>>, ToolError(ErrAPICredentialsRequired, ""))
                ELSE IF ~orderID.ok
                THEN Out(<<>>, ToolError("getting order_id from request", "order_id"))
                ELSE IF ~callOK THEN Out(<<call>>, ToolError("Failed to cancel order", ""))
                ELSE IF ~marshalOK
                THEN Out(<<call>>, ToolError("Failed to marshal result", ""))
                ELSE Out(<<call>>, ToolText("json", 0 - 1))
         IN  Invoke("cancel_order", args, Run(cfg), Run(Flipped(cfg)))

HandleListOrders ==
    /\ ~tres.returned
    /\ \E pairArg \in PairParams, limitArg \in NumberParams,
          callOK, marshalOK \in BOOLEAN :
         LET args == ("pair" :> pairArg) @@ ("limit" :> limitArg)
         IN
         LET Run(c) ==
            LET pair == GetString(args, "pair", <<>>)
                limit == GetFloat(args, "limit", 1000)  \* 100, in tenths
                call == [Call("ListOrders") EXCEPT
                            !.ok = callOK,
                            !.Pair = pair, !.Limit = Int64(limit)]
            IN  IF ~c.IsAuthenticated
                THEN Out(<<>>, ToolError(ErrAPICredentialsRequired, ""))
                ELSE IF ~callOK THEN Out(<<call>>, ToolError("Failed to list orders", ""))
                ELSE IF ~marshalOK
                THEN Out(<<call>>, ToolError("Failed to marshal orders", ""))
                ELSE Out(<<call>>, ToolText("json", 0 - 1))
         IN  Invoke("list_orders", args, Run(cfg), Run(Flipped(cfg)))

HandleListTransactions ==
    /\ ~tres.returned
    /\ \E idArg \in IdParams, minArg \in NumberParams, maxArg \in NumberParams,
          callOK, marshalOK \in BOOLEAN :
         LET args == ("account_id" :> idArg) @@ ("min_row" :> minArg)
                     @@ ("max_row" :> maxArg)
         IN
         LET Run(c) ==
            LET accountIDStr == RequireString(args, "account_id")
                accountID == ParseInt(accountIDStr.v)
                call == [Call("ListTransactions") EXCEPT
                            !.ok = callOK,
                            !.Id = accountID.v,
                            !.MinRow = GetInt(args, "min_row", 1),
                            !.MaxRow = GetInt(args, "max_row", 100)]
            IN  IF ~c.IsAuthenticated
                THEN Out(<<>>, ToolError(ErrAPICredentialsRequired, ""))
                ELSE IF ~accountIDStr.ok
                THEN Out(<<>>, ToolError("getting account_id from request", "account_id"))
                ELSE IF ~accountID.ok
                THEN Out(<<>>, ToolError("Invalid account ID format", "account_id"))
                ELSE IF ~callOK
                THEN Out(<<call>>, ToolError("Failed to list transactions", ""))
                ELSE IF ~marshalOK
                THEN Out(<<call>>, ToolError("Failed to marshal transactions", ""))
                ELSE Out(<<call>>, ToolText("json", 0 - 1))
         IN  Invoke("list_transactions", args, Run(cfg), Run(Flipped(cfg)))

\* the scan of get_transaction: the first row whose RowIndex is the id
LastMatch(rows, transactionID) ==
    IF \E i \in 1..Len(rows) : rows[i] = transactionID
    THEN CHOOSE i \in 1..Len(rows) :
            rows[i] = transactionID /\ \A j \in (i + 1)..Len(rows) : rows[j] # transactionID
    ELSE 0
FirstMatch(rows, transactionID) ==
    IF \E i \in 1..Len(rows) : rows[i] = transactionID
    THEN CHOOSE i \in 1..Len(rows) :
            rows[i] = transactionID /\ \A j \in 1..(i - 1) : rows[j] # transactionID
    ELSE 0

HandleGetTransaction ==
    /\ ~tres.returned
    /\ \E accArg \in IdParams, txArg \in IdParams, rows \in RowLists,
          callOK, marshalOK \in BOOLEAN :
         LET args == ("account_id" :> accArg) @@ ("transaction_id" :> txArg)
         IN
         LET Run(c) ==
            LET accountIDStr == RequireString(args, "account_id")
                accountID == ParseInt(accountIDStr.v)
                transactionIDStr == RequireString(args, "transaction_id")
                transactionID == ParseInt(transactionIDStr.v)
                call == [Call("ListTransactions") EXCEPT
                            !.ok = callOK,
                            !.rows = IF callOK THEN rows ELSE <<>>,
                            !.Id = accountID.v, !.MinRow = 0, !.MaxRow = 1000]
                found == FirstMatch(rows, transactionID.v)
            IN  IF ~c.IsAuthenticated
                THEN Out(<<>>, ToolError(ErrAPICredentialsRequired, ""))
                ELSE IF ~accountIDStr.ok
                THEN Out(<<>>, ToolError("getting account_id from request", "account_id"))
                ELSE IF ~accountID.ok
                THEN Out(<<>>, ToolError("Invalid account ID format", "account_id"))
                ELSE IF ~transactionIDStr.ok
                THEN Out(<<>>, ToolError("getting transaction_id from request",
                                         "transaction_id"))
                ELSE IF ~transactionID.ok
                THEN Out(<<>>, ToolError("Invalid transaction ID format", "transaction_id"))
                ELSE IF ~callOK
                THEN Out(<<call>>, ToolError("Failed to get transactions", ""))
                ELSE IF found = 0
                THEN Out(<<call>>, ToolError("Transaction not found", "transaction_id"))
                ELSE IF ~marshalOK
                THEN Out(<<call>>, ToolError("Failed to marshal transaction", ""))
                ELSE Out(<<call>>, ToolText("json", found))
         IN  Invoke("get_transaction", args, Run(cfg), Run(Flipped(cfg)))

HandleListTradesAuthChecked ==
    /\ ~tres.returned
    /\ \E pairArg \in PairParams, sinceArg \in SinceParams,
          order \in MapOrders, callOK, marshalOK \in BOOLEAN :
         LET args == ("pair" :> pairArg) @@ ("since" :> sinceArg)
         IN
         LET Run(c) ==
            LET p == RequireString(args, "pair")
                sinceStr == GetString(args, "since", <<>>)
                sinceInt == ParseInt(sinceStr)
                call == [Call("ListTrades") EXCEPT
                            !.ok = callOK,
                            !.Pair = normalizeCurrencyPair(p.v, order),
                            !.Since = IF sinceStr # <<>> THEN SinceMs(sinceInt.v)
                                      ELSE SinceZero]
            IN  IF ~c.IsAuthenticated
                THEN Out(<<>>, ToolError(ErrAPICredentialsRequired, ""))
                ELSE IF ~p.ok
                THEN Out(<<>>, ToolError("getting pair from request", "pair"))
                ELSE IF sinceStr # <<>> /\ ~sinceInt.ok
                THEN Out(<<>>, ToolError("Invalid 'since' timestamp format", "since"))
                ELSE IF ~callOK THEN Out(<<call>>, ToolError("listing trades", ""))
                ELSE IF ~marshalOK
                THEN Out(<<call>>, ToolError("Failed to marshal trades", ""))
                ELSE Out(<<call>>, ToolText("json", 0 - 1))
         IN  Invoke("list_trades", args, Run(cfg), Run(Flipped(cfg)))

HandleListTrades ==
    /\ ~tres.returned
    /\ \E pairArg \in PairParams, sinceArg \in SinceParams,
          order \in MapOrders, callOK, marshalOK \in BOOLEAN :
         LET args == ("pair" :> pairArg) @@ ("since" :> sinceArg)
         IN
         LET Run(c) ==
            LET p == RequireString(args, "pair")
                sinceStr == GetString(args, "since", <<>>)
                sinceInt == ParseInt(sinceStr)
                call == [Call("ListTrades") EXCEPT
                            !.ok = callOK,
                            !.Pair = normalizeCurrencyPair(p.v, order),
                            !.Since = IF sinceStr # <<>> THEN SinceMs(sinceInt.v)
                                      ELSE SinceZero]
            IN  IF ~p.ok
                THEN Out(<<>>, ToolError("getting pair from request", "pair"))
                ELSE IF sinceStr # <<>> /\ ~sinceInt.ok
                THEN Out(<<>>, ToolError("Invalid 'since' timestamp format", "since"))
                ELSE IF ~callOK THEN Out(<<call>>, ToolError("listing trades", ""))
                ELSE IF ~marshalOK
                THEN Out(<<call>>, ToolError("Failed to marshal trades", ""))
                ELSE Out(<<call>>, ToolText("json", 0 - 1))
         IN  Invoke("list_trades", args, Run(cfg), Run(Flipped(cfg)))

-----------------------------------------------------------------------------
(* Specifications *)

\* the normaliser applied to drawn inputs
InitNorm == NormInit /\ RTIdle /\ LoadIdle /\ ToolIdle
NextNorm == Normalize \/ NormalizeAgain \/ NormalizeSameInput
SpecNorm == InitNorm /\ [][NextNorm]_vars

\* RoundTrip calls through one shared decorator
InitRT == NormIdle /\ RTInit /\ LoadIdle /\ ToolIdle
NextRT == \E c \in Calls : NewRequest(c) \/ RoundTrip(c) \/ TransportReturns(c)
SpecRT == InitRT /\ [][NextRT]_vars

\* config.Load on a drawn environment
InitLoad == NormIdle /\ RTIdle /\ LoadInit /\ ToolIdle
NextLoad == Load
SpecLoad == InitLoad /\ [][NextLoad]_vars

\* one tool invocation against a loaded Config
InitTools == NormIdle /\ RTIdle /\ LoadIdle /\ ToolInit
NextTools ==
    \/ HandleGetBalances
    \/ HandleGetTicker
    \/ HandleGetOrderBook
    \/ HandleGetTickers
    \/ HandleGetCandles
    \/ HandleGetMarketsInfo
    \/ HandleCreateOrder
    \/ HandleCancelOrder
    \/ HandleListOrders
    \/ HandleListTransactions
    \/ HandleGetTransaction
    \/ HandleListTrades
SpecTools == InitTools /\ [][NextTools]_vars

-----------------------------------------------------------------------------
(* Properties *)

\* C1: when a RoundTrip call has returned, the caller's request object is as
\* it was before the call (method, URL, User-Agent and every other header),
\* whether the inner transport answered or failed.
C1_OriginalRequestUnchanged ==
    \A c \in Calls :
        rtcall[c].pc = "returned" => Deref(OrigId(c)) = rtcall[c].pre

C1_Witness ==
    \E c \in Calls :
        /\ rtcall[c].pc = "returned"
        /\ rtcall[c].inner.err # "nil"
        /\ rtcall[c].pre.Header["User-Agent"] = <<"TestClient/1.0">>
        /\ Deref(CloneId(c)).Header["User-Agent"] # <<"TestClient/1.0">>

\* C2: the request handed to the inner transport carries the User-Agent
\* "(<name>/<version>)" when the original User-Agent is empty or absent and
\* "<original> (<name>/<version>)" otherwise; its other headers are the
\* original's.
C2_ForwardedUserAgent ==
    \A c \in Calls :
        rtcall[c].pc \in {"sent", "returned"} =>
            LET ua == rtcall[c].pre.Header["User-Agent"]
                original == IF ua = <<>> THEN "" ELSE ua[1]
                suffix == "(" \o rt.mcpServer \o "/" \o rt.version \o ")"
                fwd == Deref(CloneId(c))
            IN  /\ fwd.Header["User-Agent"] =
                       << IF original = "" THEN suffix ELSE original \o " " \o suffix >>
                /\ fwd.Header["Accept"] = rtcall[c].pre.Header["Accept"]

C2_Witness ==
    \E c, d \in Calls :
        /\ rtcall[c].pc = "sent"
        /\ rtcall[c].pre.Header["User-Agent"] = <<"TestClient/1.0">>
        /\ rtcall[c].pre.Header["Accept"] # <<>>
        /\ rtcall[d].pc = "sent"
        /\ rtcall[d].pre.Header["User-Agent"] = <<>>

AuthenticatedTools ==
    {"get_balances", "create_order", "cancel_order", "list_orders",
     "list_transactions", "get_transaction"}

\* C3: an authenticated tool invoked with IsAuthenticated = false returns the
\* credentials-required error result and calls the exchange client not at
\* all, whatever its parameters.
C3_UnauthenticatedRejected ==
    (tres.returned /\ ~cfg.IsAuthenticated /\ treq.tool \in AuthenticatedTools) =>
        /\ tres.isError
        /\ tres.text = ErrAPICredentialsRequired
        /\ upstream = <<>>

C3_Witness ==
    /\ tres.returned
    /\ ~cfg.IsAuthenticated
    /\ treq.tool = "create_order"
    /\ treq.args["pair"].kind = "absent"
    /\ tres.text = ErrAPICredentialsRequired

PairBearingTools ==
    {"get_ticker", "get_tickers", "get_order_book", "list_trades", "get_candles",
     "get_markets_info", "create_order", "list_orders"}

\* C4: every pair a pair-bearing tool forwards to the exchange client is an
\* output of the normaliser applied to the pair the caller supplied.
C4_ForwardedPairsNormalized ==
    (tres.returned /\ treq.tool \in PairBearingTools) =>
        LET arg == treq.args["pair"]
            given == IF arg.kind = "str" THEN arg.s ELSE <<>>
            items == IF given = <<>> THEN <<>> ELSE Split(given)
            Normal(x) == { normalizeCurrencyPair(x, o) : o \in MapOrders }
        IN  \A i \in 1..Len(upstream) :
                IF upstream[i].op = "GetTickers"
                   \/ (upstream[i].op = "Markets" /\ treq.tool = "get_markets_info")
                THEN /\ Len(upstream[i].Pairs) = Len(items)
                     /\ \A j \in 1..Len(items) :
                            upstream[i].Pairs[j] \in Normal(items[j])
                ELSE IF upstream[i].op = "Markets"
                THEN /\ Len(upstream[i].Pairs) = 1
                     /\ upstream[i].Pairs[1] \in Normal(given)
                ELSE upstream[i].Pair \in Normal(given)

\* C5: normalising the normaliser's output gives that output again.
C5_Idempotent ==
    npc = "twice" => nout2 = nout

C7_NormalizeResult ==
    npc # "start" =>
        LET kept == SelectSeq(npair, LAMBDA ch : ch \notin {"-", "_", "/"})
            up == [i \in 1..Len(kept) |->
                      IF \E k \in 1..26 : Lower[k] = kept[i]
                      THEN Upper[CHOOSE k \in 1..26 : Lower[k] = kept[i]]
                      ELSE kept[i]]
            Occurs(str, key, i) ==
                i + Len(key) - 1 <= Len(str) /\ SubSeq(str, i, i + Len(key) - 1) = key
            RECURSIVE From(_, _, _)
            From(str, key, i) ==
                IF i > Len(str) THEN <<>>
                ELSE IF Occurs(str, key, i)
                     THEN <<"X","B","T">> \o From(str, key, i + Len(key))
                     ELSE <<str[i]>> \o From(str, key, i + 1)
            btc == <<"B","T","C">>
            bitcoin == <<"B","I","T","C","O","I","N">>
        IN  /\ nout \in { From(From(up, btc, 1), bitcoin, 1),
                          From(From(up, bitcoin, 1), btc, 1) }
            /\ npair = <<"b","t","c","-","z","a","r">> => nout = <<"X","B","T","Z","A","R">>
            /\ npair = <<"B","T","C","/","Z","A","R">> => nout = <<"X","B","T","Z","A","R">>
            /\ npair = <<"e","t","h","z","a","r">> => nout = <<"E","T","H","Z","A","R">>
            /\ npair = <<"b","i","t","c","o","i","n","_","u","s","d">>
                  => nout = <<"X","B","T","U","S","D">>

C7_Witness ==
    /\ npc = "once"
    /\ npair = <<"b","i","t","c","o","i","n","_","u","s","d">>
    /\ nout = <<"X","B","T","U","S","D">>

SetterCalls(op) == { i \in 1..Len(client.setters) : client.setters[i][1] = op }

\* C8: Load reports IsAuthenticated = true, and has called SetAuth, exactly
\* when the key-ID and the secret of the environment are both non-empty after
\* trimming surrounding whitespace; otherwise it succeeds unauthenticated
\* without calling SetAuth.
C8_AuthenticatedIffTrimmedCredentials ==
    loadres.returned =>
        LET both == /\ TrimSpace(env[EnvLunoAPIKeyID]) # <<>>
                    /\ TrimSpace(env[EnvLunoAPIKeySecret]) # <<>>
        IN  /\ both <=> SetterCalls("SetAuth") # {}
            /\ loadres.err = "nil" => (loadres.cfg.IsAuthenticated <=> both)
            /\ ~both => (loadres.err = "nil" /\ ~loadres.cfg.IsAuthenticated)

\* C9: the domain is the override if non-empty, else the environment value if
\* non-empty, else "api.luno.com"; SetBaseURL("https://<domain>") is called
\* exactly when that domain is not the default, and the base URL is left
\* alone otherwise.
C9_DomainResolution ==
    loadres.returned =>
        LET override == loadres.domainOverride
            fromEnv == env[EnvLunoAPIDomain]
            domain == IF override # "" THEN override
                      ELSE IF fromEnv # "" THEN fromEnv ELSE "api.luno.com"
        IN  IF domain # "api.luno.com"
            THEN /\ Cardinality(SetterCalls("SetBaseURL")) = 1
                 /\ \A i \in SetterCalls("SetBaseURL") :
                        client.setters[i][2] = "https://" \o domain
                 /\ client.baseURL = "https://" \o domain
            ELSE /\ SetterCalls("SetBaseURL") = {}
                 /\ client.baseURL = NewClient.baseURL

C9_Witness ==
    /\ loadres.returned
    /\ loadres.domainOverride = "custom.example.com"
    /\ env[EnvLunoAPIDomain] = "api.staging.luno.com"
    /\ client.baseURL = "https://custom.example.com"

\* C10: when Load called SetAuth and the client rejected the credentials,
\* Load returns an error and no Config.
C10_SetAuthFailurePropagated ==
    (loadres.returned /\ \E i \in SetterCalls("SetAuth") : client.setters[i][2] = "error") =>
        /\ loadres.err # "nil"
        /\ loadres.cfg = NilConfig

C10_Witness ==
    /\ loadres.returned
    /\ \E i \in SetterCalls("SetAuth") : client.setters[i][2] = "error"
    /\ loadres.err = ErrSetAuth
    /\ env[EnvLunoAPIKeyID] = <<"k","e","y","i","d","1">>


\* C11: after a successful Load the exchange client of the returned Config
\* has the MCPRoundTripper installed over its default transport.
C11_DecoratorInstalled ==
    (loadres.returned /\ loadres.err = "nil") =>
        client.transport = "MCPRoundTripper over " \o DefaultTransport


\* C12: create_order with an order type that is not exactly "BUY" or "SELL"
\* returns an error result and calls the exchange client not at all; once
\* the type is reached, the error is the explicit order-type message.
C12_OrderTypeRejected ==
    (/\ tres.returned
     /\ treq.tool = "create_order"
     /\ treq.args["type"] \notin { Str(<<"B","U","Y">>), Str(<<"S","E","L","L">>) }) =>
        /\ tres.isError
        /\ upstream = <<>>
        /\ (/\ cfg.IsAuthenticated
            /\ treq.args["pair"].kind = "str"
            /\ treq.args["type"].kind = "str") =>
               tres.text = "Order type must be 'BUY' or 'SELL'"

C12_Witness ==
    /\ tres.returned
    /\ cfg.IsAuthenticated
    /\ treq.tool = "create_order"
    /\ treq.args["type"] = Str(<<"b","u","y">>)
    /\ treq.args["volume"] = Str(<<"0",".","5">>)
    /\ treq.args["price"] = Str(<<"1","0","0">>)
    /\ tres.text = "Order type must be 'BUY' or 'SELL'"
    /\ upstream = <<>>


\* C13: in create_order every PostLimitOrder call comes directly after a
\* market-info fetch for the same pair that succeeded; when the fetch fails
\* the result is an error other than the order-placement failure and no
\* PostLimitOrder call is made.
C13_OrderAfterMarketInfo ==
    (tres.returned /\ treq.tool = "create_order") =>
        /\ \A i \in DOMAIN upstream :
              upstream[i].op = "PostLimitOrder" =>
                 /\ i > 1
                 /\ upstream[i - 1].op = "Markets"
                 /\ upstream[i - 1].ok
                 /\ upstream[i - 1].Pairs = <<upstream[i].Pair>>
        /\ (\E i \in DOMAIN upstream : upstream[i].op = "Markets" /\ ~upstream[i].ok) =>
              /\ tres.isError
              /\ tres.text # "Failed to create limit order"
              /\ \A i \in DOMAIN upstream : upstream[i].op # "PostLimitOrder"

C13_Witness ==
    /\ tres.returned
    /\ treq.tool = "create_order"
    /\ Len(upstream) = 1
    /\ upstream[1].op = "Markets"
    /\ ~upstream[1].ok
    /\ tres.isError
    /\ tres.text = "Unable to create order: Failed to retrieve market information for pair"


\* C14: an authenticated get_transaction with numeric account_id and
\* transaction_id makes one ListTransactions call for the account with
\* MinRow = 0 and MaxRow = 1000; when the call answers, "Transaction not
\* found" is returned exactly when no listed row has the requested RowIndex,
\* and otherwise the row returned is the first one that has it.
C14_Numeric(arg) == arg.kind = "str" /\ ParseInt(arg.s).ok

C14_FirstMatchingRow ==
    (/\ tres.returned
     /\ treq.tool = "get_transaction"
     /\ cfg.IsAuthenticated
     /\ C14_Numeric(treq.args["account_id"])
     /\ C14_Numeric(treq.args["transaction_id"])) =>
        LET id == ParseInt(treq.args["transaction_id"].s).v
            rows == upstream[1].rows
            matches == { i \in 1..Len(rows) : rows[i] = id }
        IN  /\ Len(upstream) = 1
            /\ upstream[1].op = "ListTransactions"
            /\ upstream[1].Id = ParseInt(treq.args["account_id"].s).v
            /\ upstream[1].MinRow = 0
            /\ upstream[1].MaxRow = 1000
            /\ ~upstream[1].ok =>
                  tres.isError /\ tres.text = "Failed to get transactions"
            /\ upstream[1].ok =>
                  /\ (tres.isError /\ tres.text = "Transaction not found") <=> matches = {}
                  /\ ~tres.isError =>
                        /\ tres.row \in matches
                        /\ \A i \in matches : tres.row <= i
                  /\ tres.isError /\ matches # {} =>
                        tres.text = "Failed to marshal transaction"

C14_Witness ==
    /\ tres.returned
    /\ treq.tool = "get_transaction"
    /\ cfg.IsAuthenticated
    /\ treq.args["account_id"] = Str(<<"1","2">>)
    /\ treq.args["transaction_id"] = Str(<<"1">>)
    /\ Len(upstream) = 1
    /\ upstream[1].ok
    /\ upstream[1].rows = <<1, 1>>
    /\ ~tres.isError
    /\ tres.row = 1


\* C15: whatever the request and whatever the exchange client answers, a
\* handler returns a tool result with a nil Go error; a missing credential,
\* a rejected parameter and a failed upstream call are reported as an error
\* result, and no invocation changes the Config that later calls use.
C15_ErrorsInsideResult ==
    /\ [](tres.returned =>
            /\ tres.goErr = "nil"
            /\ (treq.tool \in AuthenticatedTools /\ ~cfg.IsAuthenticated) => tres.isError
            /\ (\E i \in DOMAIN upstream : ~upstream[i].ok) => tres.isError
            /\ upstream = <<>> => tres.isError
            /\ tres.isError => tres.text # "")
    /\ [][cfg' = cfg]_vars

C15_Witness ==
    /\ tres.returned
    /\ treq.tool = "list_trades"
    /\ Len(upstream) = 1
    /\ ~upstream[1].ok
    /\ tres.isError
    /\ tres.text = "listing trades"
    /\ tres.goErr = "nil"


\* the required parameters that the request leaves out or malforms
C16_BadParams ==
    LET t == treq.tool
        a == treq.args
        isStr(k) == a[k].kind = "str"
    IN  { k \in DOMAIN a :
            \/ /\ k = "pair"
               /\ t \in {"get_ticker", "get_order_book", "get_candles",
                         "create_order", "list_trades"}
               /\ ~isStr(k)
            \/ /\ k = "type"
               /\ ~isStr(k) \/ a[k].s \notin { <<"B","U","Y">>, <<"S","E","L","L">> }
            \/ /\ k \in {"volume", "price"}
               /\ ~isStr(k) \/ ~NewFromString(a[k].s).ok
            \/ /\ k = "order_id"
               /\ ~isStr(k)
            \/ /\ k \in {"account_id", "transaction_id"}
               /\ ~isStr(k) \/ ~ParseInt(a[k].s).ok
            \/ /\ k = "duration"
               /\ a[k].kind = "absent" \/ (isStr(k) /\ ~ParseInt(a[k].s).ok)
            \/ /\ k = "since"
               /\ t = "list_trades"
               /\ isStr(k) /\ a[k].s # <<>> /\ ~ParseInt(a[k].s).ok }

C16_Rejected ==
    /\ tres.isError
    /\ tres.param \in C16_BadParams
    /\ upstream = <<>>

\* C16 as stated: in every handler a missing or malformed required parameter
\* gives an error result that names an offending parameter, and the exchange
\* client is not called.
C16_BadParameterNamed ==
    (tres.returned /\ C16_BadParams # {}) => C16_Rejected

\* C16: once the handler's authentication check has passed (a public tool,
\* or IsAuthenticated = TRUE), a missing or malformed required parameter
\* gives an error result that names an offending parameter and the exchange
\* client is not called; on an unauthenticated Config the authenticated
\* handlers answer with the credentials error, also without a client call.
C16_BadParameterNamedWhenAuthorized ==
    (tres.returned /\ C16_BadParams # {}) =>
        IF treq.tool \in AuthenticatedTools /\ ~cfg.IsAuthenticated
        THEN /\ tres.isError
             /\ tres.text = ErrAPICredentialsRequired
             /\ upstream = <<>>
        ELSE C16_Rejected

C16_Witness ==
    /\ tres.returned
    /\ treq.tool = "get_transaction"
    /\ cfg.IsAuthenticated
    /\ treq.args["account_id"] = Str(<<"1">>)
    /\ treq.args["transaction_id"] = Str(<<"x","1">>)
    /\ C16_BadParams = {"transaction_id"}
    /\ tres.isError
    /\ tres.text = "Invalid transaction ID format"
    /\ upstream = <<>>


PublicTools ==
    {"get_ticker", "get_tickers", "get_order_book", "list_trades",
     "get_candles", "get_markets_info"}

\* C18: a public tool invoked with the same parameters and the same answers
\* of the exchange client makes the same upstream calls and returns the same
\* result on a Config with IsAuthenticated = true as on one with
\* IsAuthenticated = false.
C18_PublicToolsIgnoreAuthentication ==
    (tres.returned /\ treq.tool \in PublicTools) =>
        /\ twin.calls = upstream
        /\ twin.res = tres

C18_Witness ==
    /\ tres.returned
    /\ treq.tool = "list_trades"
    /\ ~cfg.IsAuthenticated
    /\ ~tres.isError
    /\ Len(upstream) = 1
    /\ upstream[1].op = "ListTrades"
    /\ twin.calls = upstream
    /\ twin.res = tres


\* C17: a RoundTrip call hands the clone to the inner transport exactly once
\* and returns the inner transport's (response, error) pair as it is, a
\* failure included.
C17_InnerResultReturned ==
    \A c \in Calls :
        /\ rtcall[c].pc \in {"sent", "returned"} =>
              /\ rtcall[c].innerCalls = 1
              /\ rtcall[c].innerReq = CloneId(c)
        /\ rtcall[c].pc = "returned" =>
              /\ rtcall[c].inner \in InnerOutcomes
              /\ rtcall[c].ret = rtcall[c].inner

C17_Witness ==
    \E c \in Calls :
        /\ rtcall[c].pc = "returned"
        /\ rtcall[c].innerCalls = 1
        /\ rtcall[c].inner = [resp |-> "nil", err |-> "dial tcp: i/o timeout"]
        /\ rtcall[c].ret = [resp |-> "nil", err |-> "dial tcp: i/o timeout"]

\* the User-Agent a call must forward: its own original one followed by one
\* "(<name>/<version>)"
C19_Expected(c) ==
    LET ua == rtcall[c].pre.Header["User-Agent"]
        original == IF ua = <<>> THEN "" ELSE ua[1]
        suffix == "(" \o rtargs.mcpServer \o "/" \o rtargs.version \o ")"
    IN  IF original = "" THEN suffix ELSE original \o " " \o suffix

\* C19: with any calls in flight together through the one decorator, each
\* forwarded request carries its own original User-Agent followed by exactly
\* one suffix, no call has to wait for another one (a call that has its
\* request can always go on to the inner transport, and one whose inner
\* transport answers can always return), and no step changes the
\* decorator's fields.
C19_ConcurrentCallsIndependent ==
    /\ [](\A c \in Calls :
            /\ rtcall[c].pc \in {"sent", "returned"} =>
                  Deref(CloneId(c)).Header["User-Agent"] = <<C19_Expected(c)>>
            /\ rtcall[c].pc = "ready" => ENABLED RoundTrip(c)
            /\ rtcall[c].pc = "sent" => ENABLED TransportReturns(c))
    /\ [][rt' = rt]_vars

C19_Witness ==
    /\ rtcall[1].pc = "sent"
    /\ rtcall[2].pc = "sent"
    /\ rtcall[1].pre.Header["User-Agent"] = <<"TestClient/1.0">>
    /\ rtcall[2].pre.Header["User-Agent"] = <<>>
    /\ Deref(CloneId(1)).Header["User-Agent"] # Deref(CloneId(2)).Header["User-Agent"]

\* C20: the decorator built by NewMCPRoundTripper delegates to the platform
\* default transport when it was given none and to the given transport
\* otherwise; the client name and the version are the ones given.
C20_ConstructedDecorator ==
    /\ rt.transport = IF rtargs.transport = "nil" THEN DefaultTransport
                      ELSE rtargs.transport
    /\ rt.transport # "nil"
    /\ rt.mcpServer = rtargs.mcpServer
    /\ rt.version = rtargs.version

C20_Witness ==
    /\ rtargs.transport = "nil"
    /\ rt.transport = DefaultTransport
    /\ rtargs.mcpServer = "test-app"
    /\ \E c \in Calls : rtcall[c].pc = "sent"


\* the debug values that switch verbose logging on
C21_Enabling ==
    ToLower(env[EnvLunoAPIDebug]) \in { <<"t","r","u","e">>, <<"1">>, <<"y","e","s">> }

C21_DebugSetOnce ==
    /\ Cardinality(SetterCalls("SetDebug")) = 1
    /\ \A i \in SetterCalls("SetDebug") :
          client.setters[i][2] = IF C21_Enabling THEN "true" ELSE "false"
    /\ client.debug = C21_Enabling

\* C21 as stated: whenever Load has returned, it has called SetDebug, with
\* true exactly when the debug value equals "true", "1" or "yes" without
\* regard to case and with false for every other value.
C21_DebugFromEnvironment ==
    loadres.returned => C21_DebugSetOnce

\* C21: when Load returns a Config, it has called SetDebug once, with true
\* exactly when the debug value equals "true", "1" or "yes" without regard
\* to case and with false for every other value (absent and empty included);
\* when Load fails on SetAuth it returns before SetDebug and calls it not at
\* all.
C21_DebugFromEnvironmentOnSuccess ==
    loadres.returned =>
        IF loadres.err = "nil"
        THEN C21_DebugSetOnce
        ELSE SetterCalls("SetDebug") = {} /\ ~client.debug

C21_Witness ==
    /\ loadres.returned
    /\ loadres.err = "nil"
    /\ env[EnvLunoAPIDebug] = <<"Y","E","S">>
    /\ client.debug
    /\ client.setters[Len(client.setters)] = <<"SetDebug", "true">>


\* what a paging parameter forwards: the default when it is absent, the
\* supplied whole number when it is one
C22_Forwards(arg, default, forwarded) ==
    /\ arg.kind = "absent" => forwarded = default
    /\ (arg.kind = "num" /\ arg.n % 10 = 0) => forwarded * 10 = arg.n

\* C22: list_transactions forwards MinRow = 1 and MaxRow = 100 and
\* list_orders forwards Limit = 100 when the parameter is absent; a supplied
\* number is forwarded in its place.
C22_PagingDefaults ==
    (tres.returned /\ upstream # <<>>) =>
        /\ treq.tool = "list_transactions" =>
              /\ Len(upstream) = 1
              /\ C22_Forwards(treq.args["min_row"], 1, upstream[1].MinRow)
              /\ C22_Forwards(treq.args["max_row"], 100, upstream[1].MaxRow)
        /\ treq.tool = "list_orders" =>
              /\ Len(upstream) = 1
              /\ C22_Forwards(treq.args["limit"], 100, upstream[1].Limit)

C22_Witness ==
    /\ tres.returned
    /\ treq.tool = "list_transactions"
    /\ treq.args["min_row"] = Absent
    /\ treq.args["max_row"] = Num(600)
    /\ Len(upstream) = 1
    /\ upstream[1].MinRow = 1
    /\ upstream[1].MaxRow = 60


\* C23: two evaluations of normalizeCurrencyPair on the same input string
\* return the same output.
C23_Deterministic ==
    nrep.done => nrep.out = nout


\* the decimal values of the volume and price strings that parse
C24_Decimals ==
    (<<"0",".","5">> :> [unscaled |-> 5, scale |-> 1])
    @@ (<<"1","0","0">> :> [unscaled |-> 100, scale |-> 0])

\* C24: every order create_order submits has type bid for "BUY" and ask for
\* "SELL", the normalised pair, and as volume and price the exact decimal
\* values of the caller's strings; no order goes out for another type.
C24_SubmittedOrder ==
    (tres.returned /\ treq.tool = "create_order") =>
        \A i \in DOMAIN upstream :
            upstream[i].op = "PostLimitOrder" =>
                /\ treq.args["type"] \in { Str(<<"B","U","Y">>), Str(<<"S","E","L","L">>) }
                /\ treq.args["type"] = Str(<<"B","U","Y">>) => upstream[i].Type = "BID"
                /\ treq.args["type"] = Str(<<"S","E","L","L">>) => upstream[i].Type = "ASK"
                /\ treq.args["pair"].kind = "str"
                /\ \E order \in MapOrders :
                      upstream[i].Pair = normalizeCurrencyPair(treq.args["pair"].s, order)
                /\ treq.args["volume"].s \in DOMAIN C24_Decimals
                /\ treq.args["price"].s \in DOMAIN C24_Decimals
                /\ upstream[i].Volume = C24_Decimals[treq.args["volume"].s]
                /\ upstream[i].Price = C24_Decimals[treq.args["price"].s]

C24_Witness ==
    /\ tres.returned
    /\ treq.tool = "create_order"
    /\ treq.args["type"] = Str(<<"S","E","L","L">>)
    /\ treq.args["pair"] = Str(<<"b","t","c","z","a","r">>)
    /\ treq.args["volume"] = Str(<<"0",".","5">>)
    /\ treq.args["price"] = Str(<<"1","0","0">>)
    /\ Len(upstream) = 2
    /\ upstream[2].op = "PostLimitOrder"
    /\ upstream[2].Type = "ASK"
    /\ upstream[2].Pair = <<"X","B","T","Z","A","R">>
    /\ upstream[2].Volume = [unscaled |-> 5, scale |-> 1]
    /\ upstream[2].Price = [unscaled |-> 100, scale |-> 0]


\* C25: in one invocation no exchange operation is called twice; a handler
\* other than create_order makes at most one call and create_order at most
\* two, the market-info fetch and then the order; a call that fails is the
\* last one and the result is an error.
C25_NoRetry ==
    tres.returned =>
        /\ \A i, j \in DOMAIN upstream : upstream[i].op = upstream[j].op => i = j
        /\ treq.tool # "create_order" => Len(upstream) <= 1
        /\ treq.tool = "create_order" =>
              /\ Len(upstream) <= 2
              /\ Len(upstream) >= 1 => upstream[1].op = "Markets"
              /\ Len(upstream) = 2 => upstream[2].op = "PostLimitOrder"
        /\ \A i \in DOMAIN upstream :
              ~upstream[i].ok => (i = Len(upstream) /\ tres.isError)

C25_Witness ==
    /\ tres.returned
    /\ treq.tool = "create_order"
    /\ Len(upstream) = 2
    /\ upstream[1].ok
    /\ ~upstream[2].ok
    /\ tres.isError
    /\ tres.text = "Failed to create limit order"


\* C26: the masked values Load prints for two credentials that share their
\* first 4 characters are the same, whatever the lengths of the credentials.
C26_MaskHidesLength ==
    loadres.returned =>
        LET apiKeyID == env[EnvLunoAPIKeyID]
            apiKeySecret == env[EnvLunoAPIKeySecret]
        IN  (/\ Len(apiKeyID) > 4
             /\ Len(apiKeySecret) > 4
             /\ SubSeq(apiKeyID, 1, 4) = SubSeq(apiKeySecret, 1, 4)) =>
                loadres.stdout[1][2] = loadres.stdout[2][2]

====
